---- MODULE Spec2Model ----
(***************************************************************************)
(* Model of the ARN status-check run of aws-pushcleanup:                   *)
(*   cleanup.js   ArnCleanupService  (main, cleanup, autoBatchCleanup)     *)
(*   pinpoint.js  SNSService         (checkArnStatus, checkMultipleArns)   *)
(*   database.js  DatabaseService    (getPushArns, batchSaveArnResults,    *)
(*                                    canResumeRun, getProcessingProgress) *)
(* One node process runs at a time.  Every await of the code is a step     *)
(* boundary; the workers of a batch (the promises of Promise.all)          *)
(* interleave at their awaits.  A crash may end the process at any step    *)
(* and drops the open transaction; the results table survives.             *)
(*                                                                         *)
(* Record ordinals are positive (identity columns), so the JavaScript      *)
(* falsy cursor (null, undefined, 0) is written NULL == 0.                 *)
(***************************************************************************)
EXTENDS Integers, Sequences, FiniteSets, TLC

\* ------------------------------------------------------------- bounds
MaxId == 3          \* source rows have ordinals 1..MaxId
ChunkSize == 2      \* stands for chunkSize = 5000 of autoBatchCleanup
MaxBatch == 2       \* effective batch sizes 1..MaxBatch
MaxRuns == 1        \* run ids minted by fresh executions
MaxRetriesRun == 1  \* MAX_RETRIES in the specification of whole runs
MaxR == 3           \* MAX_RETRIES ranges over 1..MaxR for a single record
MaxLimit == 1       \* --limit values 1..MaxLimit
MaxStart == 1       \* --resume-from-id values 1..MaxStart
MaxExecs == 2       \* processes started one after the other
MaxTotal == 4       \* records a summarised run accumulates before its last chunk
RefreshEvery == 2   \* stands for the 50 batches between refreshes of arn-cleanup.js
MaxLen == 3         \* longest array handed to chunkArray on its own

NULL == 0

Ids == 1..MaxId
NeverMinted == MaxRuns + 1   \* a run id no execution ever had

VARIABLES
  source,        \* source table: ordinal -> kind of its ARN column
  batchSize,     \* effectiveBatchSize of checkMultipleArns
  maxRetries,    \* retryConfig.maxRetries
  responses,     \* what the remote service may answer in this environment
  store,         \* results table: committed rows, in insertion order
  txn,           \* rows inserted by the open transaction, not yet committed
  credExpired,   \* new Date() >= credentialsExpiry
  nextRun,       \* next run id generateRunId will mint
  execs,         \* processes started so far
  pc,            \* position of the process
  runId,         \* this.runId
  batchCounter,  \* this.batchCounter
  opts,          \* options of main()
  copts,         \* options of the current cleanup() call
  auto,          \* locals of autoBatchCleanup
  arnsToCheck,   \* records fetched by the current cleanup() call
  batchIdx,      \* i + 1 of checkMultipleArns
  results,       \* results of checkMultipleArns
  workers,       \* the checkArnStatus calls of the current batch
  req,           \* history: the last chunk request and the watermark it saw
  save,          \* history: the last batchSaveArnResults call of the process
                 \* and whether it threw
  exec,          \* history: the execution in progress or last ended, with
                 \* the sizes of the chunks it fetched
  count,         \* history of a single checkArnStatus call
  dpc,           \* arn-cleanup.js: position of the deletion process
  dryRun,        \* arn-cleanup.js: this.dryRun
  delLimit,      \* arn-cleanup.js: this.limit
  disabledARNs,  \* arn-cleanup.js: the records getDisabledARNs returned
  remote,        \* the endpoints that exist in SNS
  stats,         \* arn-cleanup.js: this.stats
  offset,        \* arn-cleanup.js: i of the batch loop of processCleanup
  batchResults,  \* arn-cleanup.js: results of the deleteARNBatch call
  deletionResults,           \* table CDW_arn_cleanup_deletion_results
  credentialRefreshCounter   \* arn-cleanup.js: batches since the last refresh

dbVars == <<store, txn>>
cfgVars == <<source, batchSize, maxRetries, responses>>
runVars == <<nextRun, execs>>
memVars == <<pc, runId, batchCounter, opts, copts, auto, arnsToCheck, batchIdx, results, workers>>
histVars == <<req, save, exec, count>>
delVars == <<dpc, dryRun, delLimit, disabledARNs, remote, stats, offset, batchResults,
             deletionResults, credentialRefreshCounter>>
vars == <<cfgVars, dbVars, credExpired, runVars, memVars, histVars, delVars>>

\* ------------------------------------------------------------- helpers
Max(S) == CHOOSE x \in S : \A y \in S : y <= x
Min(S) == CHOOSE x \in S : \A y \in S : x <= y
Range(s) == {s[i] : i \in 1..Len(s)}

RECURSIVE SortedSeq(_)
SortedSeq(S) == IF S = {} THEN <<>> ELSE <<Min(S)>> \o SortedSeq(S \ {Min(S)})

Take(s, n) == IF Len(s) <= n THEN s ELSE SubSeq(s, 1, n)

Truthy(x) == x # NULL

\* ------------------------------------------------------------- database.js
RunRows(run) == SelectSeq(store, LAMBDA r : r.runId = run)
RunOrdinals(run) == {r.originalId : r \in Range(RunRows(run))}

\* MAX(original_id) of a run, NULL when it has no row
LastProcessedId(run) == IF RunOrdinals(run) = {} THEN NULL ELSE Max(RunOrdinals(run))

getPushArnsGE(limit, resumeFromId) ==
  LET rows == {i \in Ids : source[i] \notin {"norow", "none"} /\ (Truthy(resumeFromId) => i >= resumeFromId)}
  IN IF Truthy(limit) THEN Take(SortedSeq(rows), limit) ELSE SortedSeq(rows)

getPushArns(limit, resumeFromId) ==
  LET rows == {i \in Ids : source[i] \notin {"norow", "none"} /\ (Truthy(resumeFromId) => i > resumeFromId)}
  IN IF Truthy(limit) THEN Take(SortedSeq(rows), limit) ELSE SortedSeq(rows)

canResumeRunCount(run) ==
  LET total == Cardinality({i \in Ids : source[i] # "norow"})
      processed == Len(RunRows(run))
  IN [canResume |-> processed < total,
      lastProcessedId |-> processed,
      processedRecords |-> processed,
      totalRecords |-> total]

canResumeRun(run) ==
  LET total == Cardinality({i \in Ids : source[i] # "norow"})
      processed == Len(RunRows(run))
  IN [canResume |-> processed < total,
      lastProcessedId |-> LastProcessedId(run),
      processedRecords |-> processed,
      totalRecords |-> total]

getProcessingProgressAhead(run) == [last_processed_id |-> LastProcessedId(run) + 1]

getProcessingProgressFirst(run) ==
  [last_processed_id |-> IF RunOrdinals(run) = {} THEN NULL ELSE Min(RunOrdinals(run))]

getProcessingProgress(run) == [last_processed_id |-> LastProcessedId(run)]

\* ------------------------------------------------------------- pinpoint.js
chunkArrayWhole(array, n) == IF Len(array) = 0 THEN <<>> ELSE <<array>>

chunkArrayFloor(array, n) ==
  [g \in 1..(Len(array) \div n) |-> SubSeq(array, (g - 1) * n + 1, g * n)]

RECURSIVE chunkArray(_, _)
chunkArray(array, n) ==
  IF Len(array) = 0 THEN <<>>
  ELSE <<Take(array, n)>> \o
       chunkArray(IF Len(array) <= n THEN <<>> ELSE SubSeq(array, n + 1, Len(array)), n)

\* A remote answer: a response with or without Attributes, or an error with
\* the name and the kind of message the code looks at.
Response(attrs, enabled, token) ==
  [ok |-> TRUE, attrs |-> attrs, enabled |-> enabled, token |-> token,
   name |-> "none", msg |-> "none"]
Failure(name, msg) ==
  [ok |-> FALSE, attrs |-> FALSE, enabled |-> FALSE, token |-> FALSE,
   name |-> name, msg |-> msg]

\* msg: "expired" holds one of the token-expiry phrases, "absent" holds
\* 'does not exist', "invalid" holds 'Invalid parameter', "other" none of
\* them, "none" is an error without a message.
NotFoundError == Failure("NotFoundException", "absent")
InvalidParameterError == Failure("InvalidParameter", "invalid")
AuthExpiredError == Failure("ExpiredToken", "expired")
TransientError == Failure("ThrottlingException", "other")
NoMessageError == Failure("Error", "none")
ValidationError == Failure("Error", "other")   \* thrown by validateEndpointArn
RefreshError == Failure("Error", "other")      \* thrown by refreshCredentials

Successes == {Response(a, e, t) : a \in BOOLEAN, e \in BOOLEAN, t \in BOOLEAN}
Failures == {NotFoundError, InvalidParameterError, AuthExpiredError,
             TransientError, NoMessageError}
AllResponses == Successes \cup Failures

HasMessage(e) == e.msg # "none"
IsTokenExpired(e) ==
  HasMessage(e) /\ (e.msg = "expired" \/ e.name \in {"TokenRefreshRequired", "ExpiredToken"})
IsTransient(e) ==
  /\ ~e.ok /\ HasMessage(e) /\ ~IsTokenExpired(e)
  /\ e.name \notin {"NotFoundException", "NotFound", "InvalidParameter"}
  /\ e.msg \notin {"absent", "invalid"}

NoError == Failure("none", "none")

\* a checkArnStatus call: its position, its local retries, the error it
\* caught last and, once it returned, its result
NewWorker(id) ==
  [id |-> id, wpc |-> "start", retries |-> 0, err |-> NoError,
   status |-> "NONE", retryCount |-> 0, delay |-> 0]

\* retryConfig.retryDelayMs, the default of RETRY_DELAY_MS
RetryDelayMs == 1000

BackoffDelayFlat(retries) == RetryDelayMs

\* the argument of the sleep that precedes a retry
BackoffDelay(retries) == RetryDelayMs * retries

Return(w, status, retryCount) ==
  [w EXCEPT !.wpc = "done", !.status = status, !.retryCount = retryCount]

ClassifyAttempts(w, resp) ==
  IF ~resp.attrs THEN Return(w, "NOT_FOUND", w.retries + 1)
  ELSE IF ~resp.enabled THEN Return(w, "DISABLED", w.retries + 1)
  ELSE IF ~resp.token THEN Return(w, "DISABLED", w.retries + 1)
  ELSE Return(w, "ENABLED", w.retries + 1)

ClassifyNoToken(w, resp) ==
  IF ~resp.attrs THEN Return(w, "NOT_FOUND", w.retries)
  ELSE IF ~resp.enabled THEN Return(w, "DISABLED", w.retries)
  ELSE Return(w, "ENABLED", w.retries)

\* checkArnStatus, the try block after a response arrived
Classify(w, resp) ==
  IF ~resp.attrs THEN Return(w, "NOT_FOUND", w.retries)
  ELSE IF ~resp.enabled THEN Return(w, "DISABLED", w.retries)
  ELSE IF ~resp.token THEN Return(w, "DISABLED", w.retries)
  ELSE Return(w, "ENABLED", w.retries)

CatchRestRetryInvalid(w, e) ==
  IF e.name \in {"NotFoundException", "NotFound"} THEN Return(w, "NOT_FOUND", w.retries - 1)
  ELSE IF ~HasMessage(e) THEN [w EXCEPT !.wpc = "threw"]
  ELSE IF e.msg = "absent" THEN Return(w, "NOT_FOUND", w.retries - 1)
  ELSE [w EXCEPT !.wpc = "sleep"]

\* checkArnStatus, the catch block from the NotFound test on; w.retries is
\* already incremented
CatchRest(w, e) ==
  IF e.name \in {"NotFoundException", "NotFound"} THEN Return(w, "NOT_FOUND", w.retries - 1)
  ELSE IF ~HasMessage(e) THEN [w EXCEPT !.wpc = "threw"]   \* undefined.includes
  ELSE IF e.msg = "absent" THEN Return(w, "NOT_FOUND", w.retries - 1)
  ELSE IF e.name = "InvalidParameter" \/ e.msg = "invalid"
    THEN Return(w, "INVALID", w.retries - 1)
  ELSE [w EXCEPT !.wpc = "sleep", !.delay = BackoffDelay(w.retries)]

CatchGE(w, e) ==
  LET v == [w EXCEPT !.retries = w.retries + 1, !.err = e]
  IN IF v.retries >= maxRetries THEN Return(v, "ERROR", v.retries - 1)
     ELSE IF IsTokenExpired(e) THEN [v EXCEPT !.wpc = "refresh_post"]
     ELSE CatchRest(v, e)

CatchUncounted(w, e) ==
  LET v == [w EXCEPT !.err = e]
  IN IF v.retries > maxRetries THEN Return(v, "ERROR", v.retries - 1)
     ELSE IF IsTokenExpired(e) THEN [v EXCEPT !.wpc = "refresh_post"]
     ELSE CatchRest(v, e)

\* checkArnStatus, the catch block
Catch(w, e) ==
  LET v == [w EXCEPT !.retries = w.retries + 1, !.err = e]
  IN IF v.retries > maxRetries THEN Return(v, "ERROR", v.retries - 1)
     ELSE IF IsTokenExpired(e) THEN [v EXCEPT !.wpc = "refresh_post"]
     ELSE CatchRest(v, e)

\* checkArnStatus, from validateEndpointArn to snsClient.send
Send(w) ==
  IF source[w.id] = "bad"
    THEN Catch(w, ValidationError)
    ELSE [w EXCEPT !.wpc = "call"]

WAttemptUnchecked(k) ==
  LET w == workers[k]
  IN /\ w.wpc = "start"
     /\ workers' = [workers EXCEPT ![k] = Send(w)]
     /\ UNCHANGED credExpired

\* the loop head: ensureValidCredentials finds the grant expired and starts
\* refreshCredentials, or the call is sent
WAttempt(k) ==
  LET w == workers[k]
  IN /\ w.wpc = "start"
     /\ workers' = [workers EXCEPT ![k] =
          IF credExpired
            THEN [w EXCEPT !.wpc = "refresh_pre"]
            ELSE Send(w)]
     /\ UNCHANGED credExpired

\* the AssumeRole call of ensureValidCredentials returns
WRefreshPre(k) ==
  LET w == workers[k]
  IN /\ w.wpc = "refresh_pre"
     /\ \/ /\ credExpired' = FALSE
           /\ workers' = [workers EXCEPT ![k] = Send(w)]
        \/ /\ UNCHANGED credExpired
           /\ workers' = [workers EXCEPT ![k] = Catch(w, RefreshError)]

\* snsClient.send returns
WCall(k, resp) ==
  LET w == workers[k]
  IN /\ w.wpc = "call"
     /\ workers' = [workers EXCEPT ![k] =
          IF resp.ok THEN Classify(w, resp) ELSE Catch(w, resp)]
     /\ UNCHANGED credExpired

\* the AssumeRole call of the forced refresh returns
WRefreshPost(k) ==
  LET w == workers[k]
  IN /\ w.wpc = "refresh_post"
     /\ \/ /\ credExpired' = FALSE
           /\ workers' = [workers EXCEPT ![k] = [w EXCEPT !.wpc = "start"]]
        \/ /\ UNCHANGED credExpired
           /\ workers' = [workers EXCEPT ![k] = CatchRest(w, w.err)]

\* sleep(retryDelayMs * retries) is over
WSleep(k) ==
  LET w == workers[k]
  IN /\ w.wpc = "sleep"
     /\ workers' = [workers EXCEPT ![k] = [w EXCEPT !.wpc = "start", !.delay = 0]]
     /\ UNCHANGED credExpired

WorkerStep(k) ==
  \/ WAttempt(k)
  \/ WRefreshPre(k)
  \/ \E resp \in responses : WCall(k, resp)
  \/ WRefreshPost(k)
  \/ WSleep(k)

\* ------------------------------------------------------------- cleanup.js
NoOpts == [limit |-> NULL, autoBatch |-> FALSE, resumeRunId |-> NULL, resumeFromId |-> NULL]
NoSummary == [enabled |-> 0, disabled |-> 0, error |-> 0, not_found |-> 0]
NoAuto == [active |-> FALSE, lastProcessedId |-> NULL, totalProcessed |-> 0,
           overallResults |-> NoSummary]
NoReq == [run |-> NULL, cursor |-> NULL, watermark |-> NULL, first |-> FALSE]
NoCount == [calls |-> 0, proactive |-> 0, forced |-> 0, tfails |-> 0, afails |-> 0,
            ofails |-> 0, last |-> NoError]
NoExec == [runId |-> NULL, auto |-> FALSE, resumed |-> FALSE, started |-> FALSE,
           start |-> NULL, base |-> {}, chunks |-> <<>>]

NoStats == [totalProcessed |-> 0, deleted |-> 0, alreadyDeleted |-> 0, errors |-> 0]

\* no deletion process has been started
NoDeletion ==
  /\ dpc = "idle"
  /\ dryRun = FALSE
  /\ delLimit = NULL
  /\ disabledARNs = <<>>
  /\ remote = {}
  /\ stats = NoStats
  /\ offset = 0
  /\ batchResults = <<>>
  /\ deletionResults = <<>>
  /\ credentialRefreshCounter = 0

Terminal == {"idle", "done", "failed"}

\* the process ends (code "done": exit code 0, "failed": exit code 1,
\* "idle": killed); its memory is gone
Exit(code) ==
  /\ pc' = code
  /\ runId' = NULL
  /\ batchCounter' = 0
  /\ opts' = NoOpts
  /\ copts' = NoOpts
  /\ auto' = NoAuto
  /\ arnsToCheck' = <<>>
  /\ batchIdx' = 0
  /\ results' = <<>>
  /\ workers' = <<>>

\* main(): a new process; the constructor mints a run id, the command line
\* gives the options, and no --limit turns auto-batch mode on
Main(o) ==
  /\ pc \in Terminal
  /\ IF Truthy(o.resumeRunId)
       THEN o.resumeRunId < nextRun \/ o.resumeRunId = NeverMinted
       ELSE nextRun <= MaxRuns
  /\ pc' = "cleanup"
  /\ runId' = nextRun
  /\ nextRun' = IF Truthy(o.resumeRunId) THEN nextRun ELSE nextRun + 1
  /\ execs < MaxExecs
  /\ execs' = execs + 1
  /\ credExpired' = FALSE      \* initializeClients assumed the role
  /\ batchCounter' = 0
  /\ opts' = [o EXCEPT !.autoBatch = o.autoBatch \/ ~Truthy(o.limit)]
  /\ copts' = opts'
  /\ auto' = NoAuto
  /\ arnsToCheck' = <<>>
  /\ batchIdx' = 0
  /\ results' = <<>>
  /\ workers' = <<>>
  /\ exec' = [NoExec EXCEPT !.auto = opts'.autoBatch, !.resumed = Truthy(o.resumeRunId)]
  /\ req' = NoReq
  /\ save' = [base |-> Len(store), rows |-> <<>>, failed |-> FALSE]
  /\ UNCHANGED <<delVars, cfgVars, dbVars, count>>

\* cleanup(options) with autoBatch: the head of autoBatchCleanup
AutoBatchCleanup ==
  /\ pc = "cleanup"
  /\ copts.autoBatch
  /\ auto' = [active |-> TRUE, lastProcessedId |-> copts.resumeFromId, totalProcessed |-> 0,
              overallResults |-> NoSummary]
  /\ pc' = "chunk"
  /\ UNCHANGED <<delVars, cfgVars, dbVars, credExpired, runVars, runId, batchCounter, opts, copts,
                 arnsToCheck, batchIdx, results, workers, histVars>>

\* autoBatchCleanup, the loop body up to the call of cleanup(chunkOptions)
Chunk ==
  /\ pc = "chunk"
  /\ copts' = [opts EXCEPT !.limit = ChunkSize, !.resumeFromId = auto.lastProcessedId,
                           !.autoBatch = FALSE]
  /\ pc' = "cleanup"
  /\ UNCHANGED <<delVars, cfgVars, dbVars, credExpired, runVars, runId, batchCounter, opts, auto,
                 arnsToCheck, batchIdx, results, workers, histVars>>

\* cleanup(options) without autoBatch, up to the call of checkMultipleArns
Cleanup ==
  /\ pc = "cleanup"
  /\ ~copts.autoBatch
  /\ LET resume == Truthy(copts.resumeRunId)
         rid == IF resume THEN copts.resumeRunId ELSE runId
         info == canResumeRun(rid)
         cursor == IF resume THEN info.lastProcessedId ELSE copts.resumeFromId
         arns == getPushArns(copts.limit, cursor)
     IN IF resume /\ ~info.canResume
          THEN /\ Exit("failed")
               /\ UNCHANGED <<req, exec>>
          ELSE /\ runId' = rid
               /\ copts' = [copts EXCEPT !.resumeFromId = cursor]
               /\ arnsToCheck' = arns
               /\ results' = <<>>
               /\ batchIdx' = IF Len(arns) = 0 THEN 0 ELSE 1
               /\ pc' = IF Len(arns) = 0 THEN "returned" ELSE "batch"
               /\ req' = [run |-> rid, cursor |-> cursor,
                          watermark |-> LastProcessedId(rid), first |-> ~exec.started]
               /\ exec' = IF exec.started
                            THEN [exec EXCEPT !.chunks = Append(@, Len(arns))]
                            ELSE [exec EXCEPT !.runId = rid, !.started = TRUE,
                                              !.start = cursor, !.base = RunOrdinals(rid),
                                              !.chunks = <<Len(arns)>>]
               /\ UNCHANGED <<batchCounter, opts, auto, workers>>
  /\ UNCHANGED <<delVars, cfgVars, dbVars, credExpired, runVars, save, count>>

Batches == chunkArray(arnsToCheck, batchSize)

\* checkMultipleArns, the loop body up to Promise.all: ensureValidCredentials,
\* then one checkArnStatus per record of the batch
BatchStart ==
  /\ pc = "batch"
  /\ \/ /\ credExpired' = FALSE
        /\ workers' = [k \in 1..Len(Batches[batchIdx]) |-> NewWorker(Batches[batchIdx][k])]
        /\ pc' = "workers"
        /\ UNCHANGED <<runId, batchCounter, opts, copts, auto, arnsToCheck, batchIdx, results>>
     \/ /\ credExpired          \* refreshCredentials throws
        /\ UNCHANGED credExpired
        /\ Exit("failed")
  /\ UNCHANGED <<delVars, cfgVars, dbVars, runVars, histVars>>

\* one checkArnStatus of the batch moves to its next await
Worker(k) ==
  /\ pc = "workers"
  /\ WorkerStep(k)
  /\ UNCHANGED <<delVars, cfgVars, dbVars, runVars, pc, runId, batchCounter, opts, copts, auto,
                 arnsToCheck, batchIdx, results, histVars>>

\* Promise.all rejects: a checkArnStatus threw
BatchReject ==
  /\ pc = "workers"
  /\ \E k \in DOMAIN workers : workers[k].wpc = "threw"
  /\ Exit("failed")
  /\ UNCHANGED <<delVars, cfgVars, dbVars, credExpired, runVars, histVars>>

BatchResults == [k \in DOMAIN workers |->
  [originalId |-> workers[k].id, status |-> workers[k].status,
   retryCount |-> workers[k].retryCount]]

\* saveCallback: the rows handed to batchSaveArnResults
Enriched == [k \in DOMAIN workers |->
  [runId |-> runId, batchId |-> batchCounter, originalId |-> workers[k].id,
   status |-> workers[k].status]]

JoinAny == \E k \in DOMAIN workers : workers[k].wpc = "done"

Join == \A k \in DOMAIN workers : workers[k].wpc = "done"

BatchCompleteUnawaited ==
  /\ pc = "workers"
  /\ Join
  /\ results' = results \o BatchResults
  /\ batchCounter' = batchCounter + 1
  /\ IF batchIdx < Len(Batches)
       THEN pc' = "batch" /\ batchIdx' = batchIdx + 1
       ELSE pc' = "returned" /\ UNCHANGED batchIdx
  /\ UNCHANGED <<delVars, cfgVars, dbVars, credExpired, runVars, runId, opts, copts, auto,
                 arnsToCheck, workers, histVars>>

\* Promise.all resolves; saveCallback counts the batch and batchSaveArnResults
\* begins its transaction
BatchComplete ==
  /\ pc = "workers"
  /\ Join
  /\ results' = results \o BatchResults
  /\ batchCounter' = batchCounter + 1
  /\ txn' = <<>>
  /\ save' = [base |-> Len(store), failed |-> FALSE, rows |-> [k \in DOMAIN workers |->
                 [Enriched[k] EXCEPT !.batchId = batchCounter + 1]]]
  /\ pc' = "saving"
  /\ UNCHANGED <<delVars, cfgVars, store, credExpired, runVars, runId, opts, copts, auto,
                 arnsToCheck, batchIdx, workers, req, exec, count>>

SaveInsertDirect ==
  /\ pc = "saving"
  /\ Len(txn) < Len(workers)
  /\ store' = Append(store, Enriched[Len(txn) + 1])
  /\ txn' = Append(txn, Enriched[Len(txn) + 1])
  /\ UNCHANGED <<delVars, cfgVars, credExpired, runVars, memVars, histVars>>

\* batchSaveArnResults: one INSERT inside the transaction
SaveInsert ==
  /\ pc = "saving"
  /\ Len(txn) < Len(workers)
  /\ txn' = Append(txn, Enriched[Len(txn) + 1])
  /\ UNCHANGED <<delVars, cfgVars, store, credExpired, runVars, memVars, histVars>>

SaveFailPartial ==
  /\ pc = "saving"
  /\ store' = store \o txn
  /\ txn' = <<>>
  /\ save' = [save EXCEPT !.failed = TRUE]
  /\ Exit("failed")
  /\ UNCHANGED <<delVars, cfgVars, credExpired, runVars, req, exec, count>>

\* batchSaveArnResults: begin, an INSERT or commit fails; rollback and throw
SaveFail ==
  /\ pc = "saving"
  /\ txn' = <<>>
  /\ save' = [save EXCEPT !.failed = TRUE]
  /\ Exit("failed")
  /\ UNCHANGED <<delVars, cfgVars, store, credExpired, runVars, req, exec, count>>

\* batchSaveArnResults: commit; then the next batch or the end of
\* checkMultipleArns
SaveCommit ==
  /\ pc = "saving"
  /\ Len(txn) = Len(workers)
  /\ store' = store \o txn
  /\ txn' = <<>>
  /\ IF batchIdx < Len(Batches)
       THEN pc' = "batch" /\ batchIdx' = batchIdx + 1
       ELSE pc' = "returned" /\ UNCHANGED batchIdx
  /\ UNCHANGED <<delVars, cfgVars, credExpired, runVars, runId, batchCounter, opts, copts, auto,
                 arnsToCheck, results, workers, histVars>>

MoreChunksGT(n) == n > ChunkSize

\* autoBatchCleanup: a chunk shorter than chunkSize ends the loop
MoreChunks(n) == n >= ChunkSize

CountStatus(rs, st) == Cardinality({i \in 1..Len(rs) : rs[i].status = st})

\* generateSummary: the switch has no case for INVALID
generateSummary(rs) ==
  [enabled |-> CountStatus(rs, "ENABLED"), disabled |-> CountStatus(rs, "DISABLED"),
   error |-> CountStatus(rs, "ERROR"), not_found |-> CountStatus(rs, "NOT_FOUND")]

\* what cleanup() returns for the records it checked
ChunkResult == [totalProcessed |-> Len(results), results |-> generateSummary(results)]

\* autoBatchCleanup: the totals once the chunk result is accumulated, which
\* are what it returns after a short chunk
AutoResult ==
  [totalProcessed |-> auto.totalProcessed + ChunkResult.totalProcessed,
   results |-> [key \in DOMAIN auto.overallResults |->
                  auto.overallResults[key] + ChunkResult.results[key]]]

\* cleanup() returns: to main, or to autoBatchCleanup, which stops on a short
\* chunk and otherwise reads the cursor of the next chunk from the store
Returned ==
  /\ pc = "returned"
  /\ IF auto.active /\ MoreChunks(ChunkResult.totalProcessed)
       THEN /\ auto' = [auto EXCEPT
                 !.totalProcessed = AutoResult.totalProcessed,
                 !.overallResults = AutoResult.results,
                 !.lastProcessedId = getProcessingProgress(runId).last_processed_id]
            /\ pc' = "chunk"
            /\ UNCHANGED <<runId, batchCounter, opts, copts, arnsToCheck, batchIdx,
                           results, workers>>
       ELSE Exit("done")
  /\ UNCHANGED <<delVars, cfgVars, dbVars, credExpired, runVars, histVars>>

\* the process is killed; the server rolls the open transaction back
Crash ==
  /\ pc \notin Terminal
  /\ txn' = <<>>
  /\ Exit("idle")
  /\ UNCHANGED <<delVars, cfgVars, store, credExpired, runVars, histVars>>

\* time passes credentialsExpiry
Expire ==
  /\ pc \in {"batch", "workers", "check"}
  /\ ~credExpired
  /\ credExpired' = TRUE
  /\ UNCHANGED <<delVars, cfgVars, dbVars, runVars, memVars, histVars>>

\* ------------------------------------------------------------- whole runs
\* command lines: a fresh run (with or without --resume-from-id) or
\* --resume-run-id, each with --limit, with --limit and --auto-batch, or with
\* neither
Options ==
  {o \in [limit : 0..MaxLimit, autoBatch : BOOLEAN, resumeRunId : 0..NeverMinted,
          resumeFromId : 0..MaxStart] :
     /\ o.autoBatch => Truthy(o.limit)
     /\ Truthy(o.resumeRunId) => ~Truthy(o.resumeFromId)}

\* the source table holds rows 1..n, all with an ARN or all but row h
SourceOf(n, h) ==
  [i \in Ids |-> IF i > n THEN "norow" ELSE IF i = h THEN "none" ELSE "ok"]
Sources == {SourceOf(n, h) : n \in 0..MaxId, h \in {0, 2}}

RunResponses == {Response(TRUE, TRUE, TRUE), TransientError, NoMessageError}

Init ==
  /\ source \in Sources
  /\ batchSize \in 1..MaxBatch
  /\ maxRetries = MaxRetriesRun
  /\ responses = RunResponses
  /\ store = <<>>
  /\ txn = <<>>
  /\ credExpired = FALSE
  /\ nextRun = 1
  /\ execs = 0
  /\ pc = "idle"
  /\ runId = NULL
  /\ batchCounter = 0
  /\ opts = NoOpts
  /\ copts = NoOpts
  /\ auto = NoAuto
  /\ arnsToCheck = <<>>
  /\ batchIdx = 0
  /\ results = <<>>
  /\ workers = <<>>
  /\ req = NoReq
  /\ save = [base |-> 0, rows |-> <<>>, failed |-> FALSE]
  /\ exec = NoExec
  /\ count = NoCount
  /\ NoDeletion

Next ==
  \/ \E o \in Options : Main(o)
  \/ AutoBatchCleanup
  \/ Chunk
  \/ Cleanup
  \/ BatchStart
  \/ \E k \in DOMAIN workers : Worker(k)
  \/ BatchReject
  \/ BatchComplete
  \/ SaveInsert
  \/ SaveFail
  \/ SaveCommit
  \/ Returned
  \/ Crash
  \/ Expire

Spec == Init /\ [][Next]_vars

\* ------------------------------------------------------------- one record
\* One checkArnStatus call on its own, for every MAX_RETRIES of 1..MaxR, every
\* answer of the remote service, a well-formed or malformed ARN, and a grant
\* that may expire at any moment.  count records what happened to the call.
InitCheck ==
  /\ source \in {SourceOf(1, 0), [SourceOf(1, 0) EXCEPT ![1] = "bad"]}
  /\ batchSize = 1
  /\ maxRetries \in 1..MaxR
  /\ responses = AllResponses
  /\ store = <<>>
  /\ txn = <<>>
  /\ credExpired \in BOOLEAN
  /\ nextRun = 1
  /\ execs = 0
  /\ pc = "check"
  /\ runId = NULL
  /\ batchCounter = 0
  /\ opts = NoOpts
  /\ copts = NoOpts
  /\ auto = NoAuto
  /\ arnsToCheck = <<>>
  /\ batchIdx = 0
  /\ results = <<>>
  /\ workers = <<NewWorker(1)>>
  /\ req = NoReq
  /\ save = [base |-> 0, rows |-> <<>>, failed |-> FALSE]
  /\ exec = NoExec
  /\ count = NoCount
  /\ NoDeletion

Entered(p) == workers[1].wpc # p /\ workers'[1].wpc = p
Inc(b) == IF b THEN 1 ELSE 0

\* a step of the call other than the arrival of the remote answer
CheckStep ==
  /\ pc = "check"
  /\ WAttempt(1) \/ WRefreshPre(1) \/ WRefreshPost(1) \/ WSleep(1)
  /\ count' = [count EXCEPT
       !.calls = @ + Inc(Entered("call")),
       !.proactive = @ + Inc(Entered("refresh_pre")),
       !.ofails = @ + Inc(workers[1].wpc \in {"start", "refresh_pre"}
                          /\ workers'[1].retries > workers[1].retries)]
  /\ UNCHANGED <<delVars, cfgVars, dbVars, runVars, pc, runId, batchCounter, opts, copts, auto,
                 arnsToCheck, batchIdx, results, req, save, exec>>

\* the remote service answers the call
CheckAnswer(resp) ==
  /\ pc = "check"
  /\ WCall(1, resp)
  /\ count' = [count EXCEPT
       !.last = resp,
       !.tfails = @ + Inc(IsTransient(resp)),
       !.afails = @ + Inc(~resp.ok /\ IsTokenExpired(resp)),
       !.forced = @ + Inc(Entered("refresh_post"))]
  /\ UNCHANGED <<delVars, cfgVars, dbVars, runVars, pc, runId, batchCounter, opts, copts, auto,
                 arnsToCheck, batchIdx, results, req, save, exec>>

NextCheck ==
  \/ CheckStep
  \/ \E resp \in responses : CheckAnswer(resp)
  \/ Expire

SpecCheck == InitCheck /\ [][NextCheck]_vars

\* ------------------------------------------------------------- end to end
\* A fresh run in auto-batch mode from the first source record that nothing
\* interrupts: the remote service answers every call with an enabled
\* endpoint or with NotFound, the grant does not expire, every save commits.
EndToEndOptions ==
  {o \in Options : /\ ~Truthy(o.resumeRunId) /\ ~Truthy(o.resumeFromId)
                   /\ o.autoBatch \/ ~Truthy(o.limit)}

InitEndToEnd ==
  /\ source \in Sources
  /\ batchSize \in 1..MaxBatch
  /\ maxRetries = MaxRetriesRun
  /\ responses = {Response(TRUE, TRUE, TRUE), NotFoundError}
  /\ store = <<>>
  /\ txn = <<>>
  /\ credExpired = FALSE
  /\ nextRun = 1
  /\ execs = 0
  /\ pc = "idle"
  /\ runId = NULL
  /\ batchCounter = 0
  /\ opts = NoOpts
  /\ copts = NoOpts
  /\ auto = NoAuto
  /\ arnsToCheck = <<>>
  /\ batchIdx = 0
  /\ results = <<>>
  /\ workers = <<>>
  /\ req = NoReq
  /\ save = [base |-> 0, rows |-> <<>>, failed |-> FALSE]
  /\ exec = NoExec
  /\ count = NoCount
  /\ NoDeletion

NextEndToEnd ==
  \/ \E o \in EndToEndOptions : Main(o)
  \/ AutoBatchCleanup
  \/ Chunk
  \/ Cleanup
  \/ BatchStart
  \/ \E k \in DOMAIN workers : Worker(k)
  \/ BatchComplete
  \/ SaveInsert
  \/ SaveCommit
  \/ Returned

SpecEndToEnd == InitEndToEnd /\ [][NextEndToEnd]_vars

\* ------------------------------------------------------------- arn-cleanup.js
\* The deletion script: one process that reads the DISABLED rows of a run,
\* deletes their endpoints batch by batch, one record after the other, and
\* bulk-inserts the results of each batch.  Its awaits are the step
\* boundaries; a dry run has no await inside a batch.
getDisabledARNs(run, lim) ==
  LET rows == SelectSeq(store, LAMBDA r :
                /\ r.runId = run /\ r.status = "DISABLED" /\ source[r.originalId] # "norow")
      ids == [n \in 1..Len(rows) |-> rows[n].originalId]
  IN IF Truthy(lim) THEN Take(ids, lim) ELSE ids

\* answers of DeleteEndpoint: success, or an error by name and message
DeleteOk == Response(FALSE, FALSE, FALSE)
DeleteFailures ==
  {Failure("NotFound", "other"), NotFoundError, Failure("NotFoundException", "other"),
   TransientError, NoMessageError}
DeleteAnswers == {DeleteOk} \cup DeleteFailures

IsAlreadyDeletedNameOnly(e) == e.name = "NotFound"

\* error.name === 'NotFound' || error.message?.includes('does not exist')
IsAlreadyDeleted(e) == e.name = "NotFound" \/ (HasMessage(e) /\ e.msg = "absent")

DeleteOutcomeLive(answer) ==
  IF answer.ok THEN [status |-> "DELETED", error |-> NoError]
  ELSE IF IsAlreadyDeleted(answer) THEN [status |-> "ALREADY_DELETED", error |-> answer]
  ELSE [status |-> "ERROR", error |-> answer]

\* deleteARNBatch, one record: its status and the error it caught
DeleteOutcome(answer) ==
  IF dryRun THEN [status |-> "DRY_RUN_SUCCESS", error |-> NoError]
  ELSE IF answer.ok THEN [status |-> "DELETED", error |-> NoError]
  ELSE IF IsAlreadyDeleted(answer) THEN [status |-> "ALREADY_DELETED", error |-> answer]
  ELSE [status |-> "ERROR", error |-> answer]

CountOutcomeCaughtSkipped(st, status) ==
  IF status = "DRY_RUN_SUCCESS" THEN st
  ELSE [st EXCEPT
          !.totalProcessed = @ + Inc(status = "DELETED"),
          !.deleted = @ + Inc(status = "DELETED"),
          !.alreadyDeleted = @ + Inc(status = "ALREADY_DELETED"),
          !.errors = @ + Inc(status = "ERROR")]

\* deleteARNBatch, one record: the counters; a dry-run record skips them all
CountOutcome(st, status) ==
  IF status = "DRY_RUN_SUCCESS" THEN st
  ELSE [st EXCEPT
          !.totalProcessed = @ + 1,
          !.deleted = @ + Inc(status = "DELETED"),
          !.alreadyDeleted = @ + Inc(status = "ALREADY_DELETED"),
          !.errors = @ + Inc(status = "ERROR")]

CurrentBatch ==
  SubSeq(disabledARNs, offset + 1, Min({offset + batchSize, Len(disabledARNs)}))

\* processCleanup up to the batch loop: the run id is required, the
\* connections are made, the DISABLED rows of the run are read
ProcessCleanup ==
  /\ dpc = "start"
  /\ \/ /\ ~Truthy(runId)
        /\ dpc' = "failed"
        /\ UNCHANGED disabledARNs
     \/ /\ Truthy(runId)           \* initializeDatabase or initializeAWS throws
        /\ dpc' = "failed"
        /\ UNCHANGED disabledARNs
     \/ /\ Truthy(runId)
        /\ disabledARNs' = getDisabledARNs(runId, delLimit)
        /\ dpc' = IF Len(disabledARNs') = 0 THEN "done" ELSE "batch"
  /\ UNCHANGED <<cfgVars, dbVars, credExpired, runVars, memVars, histVars, dryRun, delLimit,
                 remote, stats, offset, batchResults, deletionResults,
                 credentialRefreshCounter>>

\* processCleanup, the head of the batch loop: the refresh that is due, then
\* deleteARNBatch begins
DeleteBatchStart ==
  /\ dpc = "batch"
  /\ IF credentialRefreshCounter >= RefreshEvery
       THEN \/ credentialRefreshCounter' = 0 /\ dpc' = "deleting"
            \/ UNCHANGED credentialRefreshCounter /\ dpc' = "failed"
       ELSE UNCHANGED credentialRefreshCounter /\ dpc' = "deleting"
  /\ batchResults' = <<>>
  /\ UNCHANGED <<cfgVars, dbVars, credExpired, runVars, memVars, histVars, dryRun, delLimit,
                 disabledARNs, remote, stats, offset, deletionResults>>

\* the DeleteEndpoint calls one pass of the loop makes: a single send, in
\* no loop of its own, and none in a dry run
DeleteCalls == IF dryRun THEN 0 ELSE 1

\* deleteARNBatch, one pass of its loop; calls is the number of
\* DeleteEndpoint calls made for the record
DeleteRecord(answer) ==
  /\ dpc = "deleting"
  /\ Len(batchResults) < Len(CurrentBatch)
  /\ LET id == CurrentBatch[Len(batchResults) + 1]
         o == DeleteOutcome(answer)
     IN /\ batchResults' = Append(batchResults,
             [id |-> id, status |-> o.status, error |-> o.error, calls |-> DeleteCalls])
        /\ stats' = CountOutcome(stats, o.status)
        /\ remote' = IF o.status = "DELETED" THEN remote \ {id} ELSE remote
  /\ dpc' = IF Len(batchResults') = Len(CurrentBatch) THEN "saving" ELSE "deleting"
  /\ UNCHANGED <<cfgVars, dbVars, credExpired, runVars, memVars, histVars, dryRun, delLimit,
                 disabledARNs, offset, deletionResults, credentialRefreshCounter>>

\* saveBatchResults and the rest of the loop body: a failed bulk insert is
\* logged and not thrown
SaveBatchResults(ok) ==
  /\ dpc = "saving"
  /\ deletionResults' = IF ok THEN deletionResults \o batchResults ELSE deletionResults
  /\ credentialRefreshCounter' = credentialRefreshCounter + 1
  /\ offset' = offset + batchSize
  /\ dpc' = IF offset' >= Len(disabledARNs) THEN "done" ELSE "batch"
  /\ batchResults' = <<>>
  /\ UNCHANGED <<cfgVars, dbVars, credExpired, runVars, memVars, histVars, dryRun, delLimit,
                 disabledARNs, remote, stats>>

\* the SIGINT or SIGTERM handler: process.exit(0), as soon as the event loop
\* is free, that is at any await
Signal ==
  /\ dpc \in {"start", "batch", "saving"} \/ (dpc = "deleting" /\ ~dryRun)
  /\ dpc' = "stopped"
  /\ UNCHANGED <<cfgVars, dbVars, credExpired, runVars, memVars, histVars, dryRun, delLimit,
                 disabledARNs, remote, stats, offset, batchResults, deletionResults,
                 credentialRefreshCounter>>

\* exit code of a deletion process that has ended
ExitCode == IF dpc = "failed" THEN 1 ELSE 0

\* results tables the deletion may start from: rows 1..n of run 1, each
\* DISABLED or ENABLED
DeletionStores ==
  UNION {{[k \in 1..n |-> [runId |-> 1, batchId |-> 1, originalId |-> k, status |-> f[k]]] :
            f \in [1..n -> {"DISABLED", "ENABLED"}]} : n \in 0..MaxId}

InitDelete ==
  /\ source = SourceOf(MaxId, 0)
  /\ batchSize \in 1..MaxBatch
  /\ maxRetries = MaxRetriesRun
  /\ responses = DeleteAnswers
  /\ store \in DeletionStores
  /\ txn = <<>>
  /\ credExpired = FALSE
  /\ nextRun = 2
  /\ execs = 0
  /\ pc = "idle"
  /\ runId \in {NULL, 1}
  /\ batchCounter = 0
  /\ opts = NoOpts
  /\ copts = NoOpts
  /\ auto = NoAuto
  /\ arnsToCheck = <<>>
  /\ batchIdx = 0
  /\ results = <<>>
  /\ workers = <<>>
  /\ req = NoReq
  /\ save = [base |-> Len(store), rows |-> <<>>, failed |-> FALSE]
  /\ exec = NoExec
  /\ count = NoCount
  /\ dpc = "start"
  /\ dryRun \in BOOLEAN
  /\ delLimit \in 0..MaxLimit
  /\ disabledARNs = <<>>
  /\ remote = Ids
  /\ stats = NoStats
  /\ offset = 0
  /\ batchResults = <<>>
  /\ deletionResults = <<>>
  /\ credentialRefreshCounter = 0

NextDelete ==
  \/ ProcessCleanup
  \/ DeleteBatchStart
  \/ \E answer \in responses : DeleteRecord(answer)
  \/ \E ok \in BOOLEAN : SaveBatchResults(ok)
  \/ Signal

SpecDelete == InitDelete /\ [][NextDelete]_vars

\* ------------------------------------------------------------- summaries
\* The summary of cleanup() and the totals of autoBatchCleanup, for every
\* list of results checkMultipleArns can hand back for a chunk: up to
\* ChunkSize records, each with any of the five statuses of checkArnStatus.
StatusValues == {"ENABLED", "DISABLED", "NOT_FOUND", "INVALID", "ERROR"}
ResultLists ==
  UNION {{[k \in 1..n |-> [originalId |-> k, status |-> f[k], retryCount |-> 0]] :
            f \in [1..n -> StatusValues]} : n \in 0..ChunkSize}

InitSummary ==
  /\ source = SourceOf(0, 0)
  /\ batchSize = 1
  /\ maxRetries = MaxRetriesRun
  /\ responses = AllResponses
  /\ store = <<>>
  /\ txn = <<>>
  /\ credExpired = FALSE
  /\ nextRun = 1
  /\ execs = 0
  /\ pc = "returned"
  /\ runId = NULL
  /\ batchCounter = 0
  /\ opts = NoOpts
  /\ copts = NoOpts
  /\ auto \in {NoAuto, [NoAuto EXCEPT !.active = TRUE]}
  /\ arnsToCheck = <<>>
  /\ batchIdx = 0
  /\ results \in ResultLists
  /\ workers = <<>>
  /\ req = NoReq
  /\ save = [base |-> 0, rows |-> <<>>, failed |-> FALSE]
  /\ exec = NoExec
  /\ count = NoCount
  /\ NoDeletion

\* autoBatchCleanup: the cleanup call of the next chunk hands back its results
ChunkChecked ==
  /\ pc = "chunk"
  /\ auto.totalProcessed < MaxTotal
  /\ results' \in ResultLists
  /\ pc' = "returned"
  /\ UNCHANGED <<delVars, cfgVars, dbVars, credExpired, runVars, runId, batchCounter, opts, copts,
                 auto, arnsToCheck, batchIdx, workers, histVars>>

NextSummary ==
  \/ Returned
  \/ ChunkChecked

SpecSummary == InitSummary /\ [][NextSummary]_vars

\* ------------------------------------------------------------- properties
OkIds == {i \in Ids : source[i] \in {"ok", "bad"}}
StoredRuns == {store[i].runId : i \in 1..Len(store)}
After(cursor) == {i \in OkIds : i > cursor}
InFlight(k) == workers[k].wpc \notin {"done", "threw"}
BatchIds == {workers[k].id : k \in DOMAIN workers}

\* C1: no two rows of the results table carry the same run id and the same
\* record ordinal, whatever executions, crashes, failed saves and resumes
\* came before.
C1_AtMostOncePerRun ==
  \A i, j \in 1..Len(store) :
    (store[i].runId = store[j].runId /\ store[i].originalId = store[j].originalId) => i = j

\* a resumed execution has added rows to a run that already had some
C1_Witness ==
  /\ exec.resumed
  /\ exec.base # {}
  /\ RunOrdinals(exec.runId) \ exec.base # {}

\* C2: when an execution in auto-batch mode ends normally, the ordinals with
\* a row under its run id are the ones the run had when the execution began
\* (none for a fresh run) together with every source ordinal that has an ARN
\* and lies after the cursor the execution started from, each exactly once.
C2_Completeness ==
  (pc = "done" /\ exec.auto) =>
    /\ exec.started
    /\ RunOrdinals(exec.runId) = exec.base \cup After(exec.start)
    /\ Len(RunRows(exec.runId)) = Cardinality(RunOrdinals(exec.runId))
    /\ ~exec.resumed => exec.base = {}

\* a fresh auto-batch execution ended normally after more than one chunk
C2_Witness ==
  /\ pc = "done"
  /\ exec.auto
  /\ ~exec.resumed
  /\ Cardinality(RunOrdinals(exec.runId)) > ChunkSize

\* C3 as stated: the first record a resumed execution processes is the
\* smallest source ordinal with an ARN that has no row under the run.
C3_ResumesAtSmallestMissing ==
  (pc = "batch" /\ exec.resumed /\ req.first) =>
    arnsToCheck[1] = Min(OkIds \ RunOrdinals(runId))

\* C3 amended: every chunk a resumed execution fetches starts at the smallest
\* source ordinal above the watermark the run had at that request and holds
\* no ordinal at or below it; no record in a worker or in the open
\* transaction has a row under the run already; and when a resumed auto-batch
\* execution ends normally every source ordinal above the watermark it
\* resumed from has exactly one row.
C3_IdempotentResume ==
  exec.resumed =>
    /\ pc \in {"batch", "workers", "saving"} =>
         /\ arnsToCheck[1] = Min(After(req.watermark))
         /\ \A n \in 1..Len(arnsToCheck) : arnsToCheck[n] > req.watermark
         /\ req.cursor = req.watermark
    /\ pc = "workers" => BatchIds \cap RunOrdinals(runId) = {}
    /\ \A n \in 1..Len(txn) : txn[n].originalId \notin RunOrdinals(runId)
    /\ (pc = "done" /\ exec.auto) => After(exec.start) \subseteq RunOrdinals(exec.runId)
    /\ Len(RunRows(exec.runId)) = Cardinality(RunOrdinals(exec.runId))

\* a resumed auto-batch execution of a run that had rows ended normally with
\* more rows
C3_Witness ==
  /\ pc = "done"
  /\ exec.resumed
  /\ exec.auto
  /\ exec.base # {}
  /\ RunOrdinals(exec.runId) \ exec.base # {}

\* C4: the watermark of every run id never decreases, and every chunk request
\* asks for ordinals above a cursor that is not below the watermark of its
\* run at the time of the request.
C4_WatermarkMonotone ==
  [][/\ \A r \in StoredRuns : LastProcessedId(r)' >= LastProcessedId(r)
     /\ req' # req /\ req'.run # NULL =>
          /\ req'.watermark = LastProcessedId(req'.run)
          /\ req'.cursor >= req'.watermark]_vars

\* a chunk request was issued for a run that already had a watermark
C4_Witness ==
  /\ req.run # NULL
  /\ req.watermark # NULL
  /\ pc = "workers"

\* C5: the rows committed since a batchSaveArnResults call began are none of
\* the rows of its batch or all of them, in order, in every state: during the
\* inserts, after a failed insert or commit, after a crash.
C5_AllOrNothing ==
  LET appended == SubSeq(store, save.base + 1, Len(store))
  IN appended = <<>> \/ appended = save.rows

\* the transaction holds some inserts of a batch of several rows, not all
C5_Witness ==
  /\ pc = "saving"
  /\ Len(txn) >= 1
  /\ Len(txn) < Len(save.rows)

\* C6: while rows of a batch are being inserted or committed every
\* checkArnStatus call of the batch has returned its result, and while a call
\* of the batch is in flight no record of the batch has a row.
C6_JoinBeforePersist ==
  /\ (pc = "saving" \/ txn # <<>>) =>
       \A k \in DOMAIN workers : workers[k].wpc = "done" /\ workers[k].status # "NONE"
  /\ (\E k \in DOMAIN workers : InFlight(k)) => BatchIds \cap RunOrdinals(runId) = {}

\* the save of a batch of several records is under way
C6_Witness ==
  /\ pc = "saving"
  /\ Len(workers) >= 2
  /\ Len(txn) >= 1

\* C7: while checkArnStatus calls are in flight they are the calls of the
\* current batch, every record of the earlier batches of the chunk has its
\* row, and every ordinal in flight is above every ordinal the run has a row
\* for.
C7_BatchesSequential ==
  pc = "workers" =>
    /\ BatchIds = Range(Batches[batchIdx])
    /\ \A j \in 1..(batchIdx - 1) : Range(Batches[j]) \subseteq RunOrdinals(runId)
    /\ \A k \in DOMAIN workers : \A o \in RunOrdinals(runId) : workers[k].id > o

\* a call of the second batch of a chunk is in flight
C7_Witness ==
  /\ pc = "workers"
  /\ batchIdx >= 2
  /\ \E k \in DOMAIN workers : workers[k].wpc = "call"

\* C8: a call whose remote calls failed transiently k times, 1 <= k <=
\* MAX_RETRIES, and then got a response with attributes (nothing else failed)
\* returns one result whose status is the classification of that response
\* and whose retryCount is k, after k + 1 remote calls.
C8_RetryThenSuccess ==
  LET w == workers[1]
  IN (/\ pc = "check" /\ w.wpc = "done"
      /\ count.last.ok /\ count.last.attrs
      /\ count.tfails >= 1 /\ count.afails = 0 /\ count.ofails = 0) =>
       /\ w.status = (IF count.last.enabled /\ count.last.token THEN "ENABLED" ELSE "DISABLED")
       /\ w.retryCount = count.tfails
       /\ count.tfails <= maxRetries
       /\ count.calls = count.tfails + 1

\* MAX_RETRIES transient failures and then an enabled endpoint, for the
\* largest MAX_RETRIES
C8_Witness ==
  /\ pc = "check"
  /\ workers[1].wpc = "done"
  /\ workers[1].status = "ENABLED"
  /\ maxRetries = MaxR
  /\ count.tfails = maxRetries
  /\ count.afails = 0
  /\ count.ofails = 0

\* C9: a call whose every remote call failed transiently (nothing else
\* failed) returns ERROR with retryCount = MAX_RETRIES after exactly
\* MAX_RETRIES + 1 remote calls.
C9_RetryExhaustion ==
  LET w == workers[1]
  IN (/\ pc = "check" /\ w.wpc = "done"
      /\ count.calls >= 1 /\ count.tfails = count.calls /\ count.ofails = 0) =>
       /\ w.status = "ERROR"
       /\ w.retryCount = maxRetries
       /\ count.calls = maxRetries + 1

\* every call failed transiently, for the largest MAX_RETRIES
C9_Witness ==
  /\ pc = "check"
  /\ workers[1].wpc = "done"
  /\ workers[1].status = "ERROR"
  /\ maxRetries = MaxR
  /\ count.tfails = count.calls
  /\ count.ofails = 0

\* C10 as stated: every remote call that failed with an expired-grant signal
\* was followed by one forced refresh, and the result does not count it:
\* ERROR comes only after MAX_RETRIES + 1 transient failures, and the
\* retryCount of any other result is the number of transient failures.
C10_AuthRetryFree ==
  LET w == workers[1]
  IN (/\ pc = "check" /\ w.wpc = "done"
      /\ count.afails >= 1 /\ count.ofails = 0) =>
       /\ count.forced = count.afails
       /\ w.status = "ERROR" => count.tfails = maxRetries + 1
       /\ w.retryCount = (IF w.status = "ERROR" THEN maxRetries ELSE count.tfails)

\* C11: once the remote call of a record failed with NotFound or
\* InvalidParameter the call has returned: no further remote call is in
\* flight or about to be sent, no refresh and no backoff sleep is pending,
\* after any number of earlier failures.
C11_TerminalNotRetried ==
  LET w == workers[1]
  IN (pc = "check" /\ count.last \in {NotFoundError, InvalidParameterError}) =>
       /\ w.wpc = "done"
       /\ w.status \in {"NOT_FOUND", "INVALID", "ERROR"}
       /\ count.calls = count.tfails + count.afails + 1

\* InvalidParameter arrived after an earlier transient failure and the call
\* returned INVALID
C11_Witness ==
  /\ pc = "check"
  /\ count.last = InvalidParameterError
  /\ count.tfails >= 1
  /\ workers[1].wpc = "done"
  /\ workers[1].status = "INVALID"

\* C12 as stated: a call whose last remote failure is NotFound returns
\* NOT_FOUND, whatever number of transient or expired-grant failures came
\* before it.
C12_NotFoundPriority ==
  LET w == workers[1]
  IN (pc = "check" /\ w.wpc = "done" /\ count.last = NotFoundError) =>
       w.status = "NOT_FOUND"

\* C13 as stated: a call for an ARN that validateEndpointArn rejects, or
\* whose last remote failure is InvalidParameter, returns INVALID without a
\* retry.
C13_MalformedInvalid ==
  LET w == workers[1]
  IN (/\ pc = "check" /\ w.wpc = "done"
      /\ source[1] = "bad" \/ count.last = InvalidParameterError) =>
       /\ w.status = "INVALID"
       /\ source[1] = "bad" => w.retryCount = 0 /\ count.calls = 0

Outcomes == {"ENABLED", "DISABLED", "NOT_FOUND", "INVALID", "ERROR"}

\* C14 as stated: a checkArnStatus call never ends by throwing; it has a
\* status exactly when it has returned, and the status is one of ENABLED,
\* DISABLED, NOT_FOUND, INVALID, ERROR.
C14_ExactlyOneOutcome ==
  LET w == workers[1]
  IN pc = "check" =>
       /\ w.wpc # "threw"
       /\ w.wpc = "done" <=> w.status \in Outcomes
       /\ w.wpc # "done" => w.status = "NONE"

\* C15: a call that ends on a response with attributes returns ENABLED when
\* the enabled flag is 'true' and the token is present, and DISABLED when the
\* flag is not 'true' (with or without token) or the token is missing; a
\* call returns ENABLED only on a response with attributes, flag and token.
C15_ResponseClassification ==
  LET w == workers[1]
      r == count.last
  IN (pc = "check" /\ w.wpc = "done") =>
       /\ (r.ok /\ r.attrs /\ r.enabled /\ r.token) => w.status = "ENABLED"
       /\ (r.ok /\ r.attrs /\ ~r.enabled) => w.status = "DISABLED"
       /\ (r.ok /\ r.attrs /\ r.enabled /\ ~r.token) => w.status = "DISABLED"
       /\ w.status = "ENABLED" => (r.ok /\ r.attrs /\ r.enabled /\ r.token)

\* an enabled endpoint without a token was classified DISABLED
C15_Witness ==
  /\ pc = "check"
  /\ workers[1].wpc = "done"
  /\ workers[1].status = "DISABLED"
  /\ count.last.ok /\ count.last.attrs
  /\ count.last.enabled /\ ~count.last.token

\* C16: a checkArnStatus call of a batch sends its remote call only in a
\* step that leaves the grant unexpired (the safety margin is part of
\* credentialsExpiry), and a call that reaches its loop head while the grant
\* is expired goes to the refresh, on first attempts and on retries, for all
\* the concurrent calls of a batch.
C16_NoCallWhileExpired ==
  [][\A k \in DOMAIN workers \cap DOMAIN workers' :
       /\ (workers[k].wpc # "call" /\ workers'[k].wpc = "call") => ~credExpired'
       /\ (workers[k].wpc = "start" /\ credExpired /\ workers'[k] # workers[k]) =>
            workers'[k].wpc = "refresh_pre"]_vars

\* the retry of one record is in flight after a refresh while a concurrent
\* call of the same batch still waits for its own refresh
C16_Witness ==
  /\ pc = "workers"
  /\ ~credExpired
  /\ \E k, j \in DOMAIN workers :
       /\ workers[k].wpc = "call"
       /\ workers[k].retries >= 1
       /\ workers[j].wpc = "refresh_pre"

\* C17 as stated: when a refreshCredentials call made by checkArnStatus
\* fails, at the loop head or after an expired-grant failure, the error
\* leaves checkArnStatus; the call goes neither to a retry nor to a result.
C17_RefreshFailureFatal ==
  [][LET w == workers[1]
         v == workers'[1]
     IN (/\ pc = "check"
         /\ \/ w.wpc = "refresh_pre" /\ v.wpc # "refresh_pre" /\ credExpired'
            \/ w.wpc = "refresh_post" /\ v.wpc \notin {"refresh_post", "start"}) =>
          v.wpc = "threw"]_vars

\* C18 as stated: the checkArnStatus calls of a batch end, unless the
\* process is killed, with a result for every record and the save of the
\* batch; no call throws.
C18_RecordFailureKeepsBatch ==
  [][(pc = "workers" /\ pc' \notin {"workers", "idle"}) =>
       /\ pc' = "saving"
       /\ \A k \in DOMAIN workers : workers[k].wpc = "done" /\ workers[k].status \in Outcomes
       /\ Len(save'.rows) = Len(workers)]_vars

FailedIds == {save.rows[n].originalId : n \in 1..Len(save.rows)}

\* C19: after batchSaveArnResults threw, the process has ended with a
\* failure, no record of the batch has a row under the run, every row of the
\* run is for an ordinal below the batch (no later batch was processed), the
\* run can be resumed, and the records a resume fetches above its cursor
\* hold every record of the batch, as the first ones when the run has rows.
C19_FailedBatchRedone ==
  save.failed =>
    LET r == save.rows[1].runId
        info == canResumeRun(r)
        next == getPushArns(NULL, info.lastProcessedId)
    IN /\ pc = "failed"
       /\ txn = <<>>
       /\ FailedIds \cap RunOrdinals(r) = {}
       /\ \A o \in RunOrdinals(r) : \A f \in FailedIds : o < f
       /\ info.canResume
       /\ FailedIds \subseteq Range(next)
       /\ Truthy(info.lastProcessedId) =>
            Take(next, Cardinality(FailedIds)) = SortedSeq(FailedIds)

\* the save of a second batch of two records failed
C19_Witness ==
  /\ save.failed
  /\ Len(save.rows) >= 2
  /\ RunOrdinals(save.rows[1].runId) # {}

\* C20 as stated: an execution that resumes a run id fetches records only
\* when the run has a row in the results table.
C20_ResumeNeedsOutcome ==
  (exec.resumed /\ exec.started) => exec.base # {}

\* C21 as stated: an execution that resumes a run id does not get past the
\* resume test when every source record with an ARN already has a row under
\* the run (the run had rows), whether or not the source also holds rows
\* without an ARN.
C21_ExhaustedResumeFails ==
  (exec.resumed /\ exec.started /\ exec.base # {}) => ~(OkIds \subseteq exec.base)

\* C22 as stated: in auto-batch mode a chunk shorter than the chunk size ends
\* the execution normally and a chunk of exactly the chunk size leads to the
\* next chunk, whose cleanup call fetches records again (the process is not
\* killed).
C22_Exhaustion ==
  [][/\ (pc = "returned" /\ auto.active /\ pc' \notin {"returned", "idle"}) =>
          IF Len(results) < ChunkSize THEN pc' = "done" ELSE pc' = "chunk"
     /\ (pc \in {"chunk", "cleanup"} /\ auto.active /\ exec.started
           /\ pc' \notin {pc, "idle"}) =>
          pc' \in {"cleanup", "batch", "returned"}]_vars

\* C23 as stated: an execution started with --limit L fetches at most L
\* records per request and adds at most L rows to its run, with and without
\* --auto-batch.
C23_LimitBoundsExecution ==
  (Truthy(opts.limit) /\ exec.started) =>
    /\ Len(arnsToCheck) <= opts.limit
    /\ Cardinality(RunOrdinals(exec.runId) \ exec.base) <= opts.limit

\* C24 as stated: when a batch has been committed its batch number is above
\* the batch number of every row the run had before, whether those rows come
\* from an earlier chunk or from an earlier execution of the same run id.
C24_BatchNumbersIncrease ==
  LET appended == SubSeq(store, save.base + 1, Len(store))
  IN (appended # <<>> /\ appended = save.rows) =>
       \A i \in 1..save.base :
         store[i].runId = save.rows[1].runId => store[i].batchId < save.rows[1].batchId

SumOf(summary) == summary.enabled + summary.disabled + summary.error + summary.not_found

\* C25 as stated: the counts of the summary cleanup() returns add up to its
\* totalProcessed, and so do the accumulated counts and the accumulated
\* totalProcessed of autoBatchCleanup, for every mix of statuses.
C25_SummaryAddsUp ==
  pc = "returned" =>
    /\ SumOf(ChunkResult.results) = ChunkResult.totalProcessed
    /\ auto.active => SumOf(AutoResult.results) = AutoResult.totalProcessed

CeilDiv(a, b) == (a + b - 1) \div b
RunBatchIds(run) == {r.batchId : r \in Range(RunRows(run))}

\* C26: when a fresh auto-batch execution from the first record ends, with N
\* the number of source records that have an ARN: the chunks it fetched had
\* the sizes C, ..., C, N mod C in that order, the run has one row per record
\* in (N div C) * ceil(C / B) + ceil((N mod C) / B) batches, and its
\* watermark is the largest of those ordinals; and the rows of a batch say
\* NOT_FOUND for exactly the records whose call failed with NotFound.
C26_EndToEndShape ==
  LET N == Cardinality(OkIds)
      full == N \div ChunkSize
      rest == N % ChunkSize
  IN /\ (pc = "done" /\ exec.auto /\ exec.started) =>
          /\ exec.chunks = [i \in 1..(full + 1) |-> IF i <= full THEN ChunkSize ELSE rest]
          /\ Len(RunRows(exec.runId)) = N
          /\ RunOrdinals(exec.runId) = OkIds
          /\ Cardinality(RunBatchIds(exec.runId)) =
               full * CeilDiv(ChunkSize, batchSize) + CeilDiv(rest, batchSize)
          /\ N > 0 => LastProcessedId(exec.runId) = Max(OkIds)
     /\ pc = "saving" =>
          \A k \in DOMAIN workers :
            (workers[k].err = NotFoundError) <=> (save.rows[k].status = "NOT_FOUND")

\* three records in batches of one: chunks of two and one record, three
\* batches, and a record recorded NOT_FOUND
C26_Witness ==
  /\ pc = "done"
  /\ exec.auto
  /\ exec.chunks = <<ChunkSize, 1>>
  /\ batchSize = 1
  /\ Cardinality(RunBatchIds(exec.runId)) = ChunkSize + 1
  /\ \E r \in Range(RunRows(exec.runId)) : r.status = "NOT_FOUND"

\* C27: a record whose delete call failed with the name NotFound or with a
\* message that holds 'does not exist' gets the result ALREADY_DELETED, adds
\* one to alreadyDeleted and nothing to errors or deleted, and the batch goes
\* on to its next record or to its save.
C27_NotFoundIsAlreadyDeleted ==
  [][(dpc = "deleting" /\ ~dryRun /\ Len(batchResults') = Len(batchResults) + 1) =>
       LET r == batchResults'[Len(batchResults')]
       IN /\ IsAlreadyDeleted(r.error) <=> r.status = "ALREADY_DELETED"
          /\ (r.error.name = "NotFound" \/ r.error.msg = "absent") =>
               /\ r.status = "ALREADY_DELETED"
               /\ stats' = [stats EXCEPT !.totalProcessed = @ + 1, !.alreadyDeleted = @ + 1]
               /\ dpc' \in {"deleting", "saving"}
               /\ remote' = remote]_vars

\* the first record of a batch was already deleted and the batch went on
\* with its second record
C27_Witness ==
  /\ Len(batchResults) >= 2
  /\ batchResults[1].status = "ALREADY_DELETED"
  /\ batchResults[1].error = NotFoundError
  /\ stats.alreadyDeleted >= 1

\* C28: in a dry run no step changes the set of endpoints that exist in SNS,
\* and every result of every batch, in memory and in the deletion results
\* table, is DRY_RUN_SUCCESS.
C28_DryRunDeletesNothing ==
  [][dryRun =>
       /\ remote' = remote
       /\ \A n \in 1..Len(batchResults') : batchResults'[n].status = "DRY_RUN_SUCCESS"
       /\ \A n \in 1..Len(deletionResults') :
            deletionResults'[n].status = "DRY_RUN_SUCCESS"]_vars

\* a dry run over several batches has ended with its results saved
C28_Witness ==
  /\ dryRun
  /\ dpc = "done"
  /\ Len(disabledARNs) > batchSize
  /\ Len(deletionResults) = Len(disabledARNs)
  /\ remote = Ids

\* C29 as stated: the deletion process stops on a signal only between two
\* batches, never while a batch is being deleted or saved.
C29_StopsAtBatchBoundary ==
  [][dpc' = "stopped" => dpc \in {"start", "batch", "stopped"}]_vars

\* C30 as stated: a deletion process that ended with exit code 0 after its
\* last batch has a row in the deletion results table for every record it
\* processed.
C30_ExitZeroMeansPersisted ==
  (dpc = "done" /\ ExitCode = 0) => Len(deletionResults) = Len(disabledARNs)

\* the failed attempts of the call so far, whatever their kind
FailuresSoFar(c) == c.tfails + c.afails + c.ofails

C32_DeleteRetried ==
  \A n \in 1..Len(batchResults) :
    batchResults[n].status = "ERROR" => batchResults[n].calls = maxRetries + 1

\* ordinals whose outcome the execution holds in memory
Computed ==
  {results[n].originalId : n \in 1..Len(results)}
    \cup {workers[k].id : k \in {j \in DOMAIN workers : workers[j].wpc = "done"}}

\* C33: persist before advance. The cursor of every chunk request after the
\* first of an execution is the largest ordinal that has a row under the run
\* id in the store when the request is made, no insert being open; and no
\* ordinal whose outcome is computed but has no row yet is at or below the
\* cursor of the current request.
C33_PersistBeforeAdvance ==
  [][/\ (req' # req /\ req'.run # NULL /\ ~req'.first) =>
          /\ req'.cursor = LastProcessedId(req'.run)
          /\ req'.cursor # NULL
          /\ txn = <<>>
     /\ \A i \in Computed' \ RunOrdinals(runId)' : i > req'.cursor]_vars

\* a later chunk is being checked: an outcome is computed and not persisted
C33_Witness ==
  /\ auto.active
  /\ ~req.first
  /\ req.cursor # NULL
  /\ pc = "workers"
  /\ Computed \ RunOrdinals(runId) # {}

\* ------------------------------------------------- chunkArray on its own
\* arrays of records, in any order and with repetitions
Arrays == UNION {[1..n -> Ids] : n \in 0..MaxLen}

InitChunk ==
  /\ source = SourceOf(MaxId, 0)
  /\ batchSize \in 1..MaxLen
  /\ maxRetries = MaxRetriesRun
  /\ responses = AllResponses
  /\ store = <<>>
  /\ txn = <<>>
  /\ credExpired = FALSE
  /\ nextRun = 1
  /\ execs = 0
  /\ pc = "batch"
  /\ runId = NULL
  /\ batchCounter = 0
  /\ opts = NoOpts
  /\ copts = NoOpts
  /\ auto = NoAuto
  /\ arnsToCheck \in Arrays
  /\ batchIdx = 1
  /\ results = <<>>
  /\ workers = <<>>
  /\ req = NoReq
  /\ save = [base |-> 0, rows |-> <<>>, failed |-> FALSE]
  /\ exec = NoExec
  /\ count = NoCount
  /\ NoDeletion

\* checkMultipleArns, one pass of the loop over the chunks with every check
\* answering ENABLED at once and no callback: the results of the batch are
\* pushed; after the last batch the results are returned
BatchPushed ==
  /\ pc = "batch"
  /\ IF batchIdx <= Len(Batches)
       THEN /\ results' = results \o
                 [k \in 1..Len(Batches[batchIdx]) |->
                    [originalId |-> Batches[batchIdx][k], status |-> "ENABLED",
                     retryCount |-> 0]]
            /\ batchIdx' = batchIdx + 1
            /\ UNCHANGED pc
       ELSE /\ pc' = "returned"
            /\ UNCHANGED <<results, batchIdx>>
  /\ UNCHANGED <<delVars, cfgVars, dbVars, credExpired, runVars, runId, batchCounter, opts,
                 copts, auto, arnsToCheck, workers, histVars>>

NextChunk == BatchPushed

SpecChunk == InitChunk /\ [][NextChunk]_vars

RECURSIVE Concat(_)
Concat(groups) ==
  IF Len(groups) = 0 THEN <<>> ELSE Head(groups) \o Concat(Tail(groups))

\* C34: chunkArray(records, n) gives consecutive groups in the order of the
\* input whose concatenation is the input; every group but the last has
\* exactly n records, the last has between 1 and n, and an empty input gives
\* no group. The results pushed batch after batch are the input again.
C34_ChunkArray ==
  LET chunks == chunkArray(arnsToCheck, batchSize)
  IN /\ Concat(chunks) = arnsToCheck
     /\ \A g \in 1..(Len(chunks) - 1) : Len(chunks[g]) = batchSize
     /\ Len(chunks) > 0 => Len(chunks[Len(chunks)]) \in 1..batchSize
     /\ Len(arnsToCheck) = 0 => chunks = <<>>
     /\ pc = "returned" => [k \in 1..Len(results) |-> results[k].originalId] = arnsToCheck

\* three records out of order went through two batches, the second one short
C34_Witness ==
  /\ pc = "returned"
  /\ batchSize = 2
  /\ Len(arnsToCheck) = 3
  /\ arnsToCheck[1] > arnsToCheck[2]
  /\ Len(results) = 3
  /\ Len(Batches[2]) = 1

\* workers of the batch whose refreshCredentials call has not returned
Refreshing == {k \in DOMAIN workers : workers[k].wpc \in {"refresh_pre", "refresh_post"}}

\* C35: at most one refreshCredentials call is in flight at any moment, also
\* when several checks of a batch find the grant expired together.
C35_SingleRefresh == Cardinality(Refreshing) <= 1

\* C36: checkArnStatus ends for every record by returning an outcome, after
\* at most maxRetries + 1 remote calls, whatever the failures are: a call
\* that has ended has returned, a call that has made maxRetries + 1 remote
\* calls and got their answers has ended, and no call makes more.
C36_ReturnsWithinBudget ==
  LET w == workers[1]
  IN pc = "check" =>
       /\ count.calls <= maxRetries + 1
       /\ (count.calls = maxRetries + 1 /\ w.wpc \notin {"call", "refresh_post"})
            => w.wpc = "done"
       /\ w.wpc \in {"done", "threw"} => w.wpc = "done" /\ w.status \in Outcomes

\* C37: an execution that resumes a run by run id in chunked mode and has
\* given a row to every record that remained ends normally: once all the
\* records after its starting cursor have rows under the run id, no step of
\* the execution is a failure.
C37_ResumedChunkedCompletes ==
  [][(/\ exec.resumed /\ exec.auto /\ exec.started
      /\ pc \notin Terminal
      /\ After(exec.start) \subseteq RunOrdinals(exec.runId))
       => pc' # "failed"]_vars

\* ------------------------------------------- runs whose calls all return
\* the steps of Next but the kill of the process; every call that is pending
\* returns, with a result or with a failure
\* the command lines that run in chunks: --auto-batch, or no --limit
ChunkedOptions == {o \in Options : o.autoBatch \/ ~Truthy(o.limit)}

NextLive ==
  \/ \E o \in ChunkedOptions : Main(o)
  \/ AutoBatchCleanup
  \/ Chunk
  \/ Cleanup
  \/ BatchStart
  \/ \E k \in DOMAIN workers : Worker(k)
  \/ BatchReject
  \/ BatchComplete
  \/ SaveInsert
  \/ SaveFail
  \/ SaveCommit
  \/ Returned
  \/ Expire

SpecLive == Init /\ [][NextLive]_vars /\ WF_vars(NextLive)

\* C38: with a source that does not change and remote calls, refreshes and
\* saves that always return, a chunked execution eventually ends (normally
\* or with an error), and every chunk that hands back at least one record
\* leaves the watermark of the run above the watermark its request found.
C38_ChunkedRunTerminates ==
  /\ (auto.active /\ pc \notin Terminal) ~> (pc \in Terminal)
  /\ [](pc = "returned" /\ auto.active /\ Len(results) >= 1
          => LastProcessedId(runId) > req.watermark)

\* a chunked execution ended normally after a full chunk and a second chunk
C38_Witness ==
  /\ pc = "done"
  /\ exec.auto
  /\ Len(exec.chunks) >= 2
  /\ exec.chunks[1] = ChunkSize
  /\ RunOrdinals(exec.runId) # {}

\* C39: in a deletion run totalProcessed = deleted + alreadyDeleted + errors
\* after every record, hence at every batch boundary; a record of a run that
\* is not a dry run adds one to totalProcessed and one to exactly one of
\* deleted, alreadyDeleted and errors; and a run that is not a dry run and
\* came to its end over n records has totalProcessed = n.
C39_CountersAddUp ==
  [][/\ stats'.totalProcessed = stats'.deleted + stats'.alreadyDeleted + stats'.errors
     /\ (Len(batchResults') = Len(batchResults) + 1 /\ ~dryRun) =>
          /\ stats'.totalProcessed = stats.totalProcessed + 1
          /\ \E c \in {"deleted", "alreadyDeleted", "errors"} :
               /\ stats'[c] = stats[c] + 1
               /\ \A d \in {"deleted", "alreadyDeleted", "errors"} \ {c} :
                    stats'[d] = stats[d]
     /\ (dpc' = "done" /\ ~dryRun) => stats'.totalProcessed = Len(disabledARNs')]_vars

\* a run over three records ended with one record on each counter
C39_Witness ==
  /\ dpc = "done"
  /\ ~dryRun
  /\ stats.deleted = 1
  /\ stats.alreadyDeleted = 1
  /\ stats.errors = 1
  /\ stats.totalProcessed = 3

====
